---- MODULE Spec2Model ----
(***************************************************************************)
(* Model of the process-wide pricing cache of ai-pricing-model-types       *)
(* (src/src/lib.rs): the OnceCell AI_PRICING, fetch_pricing_json and the    *)
(* async function get_ai_pricing, run by several concurrent invocations.    *)
(*                                                                         *)
(* An invocation of get_ai_pricing is split at its only suspension point,   *)
(* the await of fetch_pricing_json:                                         *)
(*   GetAiPricing      lines 198-224, up to the await (URL, bust_cache      *)
(*                     test, AI_PRICING.get(), issuing the fetch);          *)
(*   FetchPricingJson  lines 186-191, the round trip and decode complete,   *)
(*                     and lines 212-215 or 224-230, the code after the     *)
(*                     await, which runs to the return.                     *)
(* Invocations are numbered in the order in which they start.               *)
(***************************************************************************)
EXTENDS Naturals, Integers, Sequences, FiniteSets, TLC

\* ---------------------------------------------------------------- bounds
MaxCalls == 3

Calls == 1..MaxCalls

Envs == {"prod", "dev"}

MeteredPriceIds == {"price_A", "price_B"}

\* the three ways fetch_pricing_json fails: send(), error_for_status(), json()
FetchErrors == {"transport", "status", "decode"}

FetchOutcomes == {"ok"} \cup FetchErrors

\* ------------------------------------------------------- URL construction
\* a mutant of pricing_url: env is compared without regard to case
pricing_urlIgnoreCase(env) ==
    IF env \in {"prod", "Prod", "PROD"}
    THEN "https://images.bookcicle.com/ai/ai-pricing.json"
    ELSE "https://images.bookcicle.com/ai/ai-pricing-" \o env \o ".json"

pricing_url(env) ==
    IF env = "prod"
    THEN "https://images.bookcicle.com/ai/ai-pricing.json"
    ELSE "https://images.bookcicle.com/ai/ai-pricing-" \o env \o ".json"

Urls == {pricing_url(e) : e \in Envs}

\* ------------------------------------------------------------ the OnceCell
\* OnceCell::new()
CellNew == [filled |-> FALSE]

CellFilled(data) == [filled |-> TRUE, doc |-> data]

\* OnceCell::get(): Some(&value) when the cell is set
CellGet(cellv) == cellv

\* a mutant of CellSet: a plain store that replaces the value
CellSetOverwrite(cellv, data) == [cell |-> CellFilled(data), ok |-> TRUE]

\* OnceCell::set(value): Ok(()) and stores when empty, Err(value) otherwise
CellSet(cellv, data) ==
    IF cellv.filled
    THEN [cell |-> cellv, ok |-> FALSE]
    ELSE [cell |-> CellFilled(data), ok |-> TRUE]

\* the address of the value stored inside the static AI_PRICING
CellAddr == 0

\* --------------------------------------------------------------- results
NoResult == [kind |-> "none"]

Ok(ref, data) == [kind |-> "ok", ref |-> ref, doc |-> data]

Err(e) == [kind |-> "err", err |-> e]

\* the error a failed fetch of invocation c produces
FetchError(c, k) == [msg |-> k, src |-> c]

\* the &str boxed by map_err at line 227
CellAlreadyInitialized == [msg |-> "Cell was already initialized", src |-> 0]

\* the document a successful fetch-and-decode of invocation c produces
Document(c, url, mpid) == [metered_price_id |-> mpid, url |-> url, src |-> c]

\* ------------------------------------------------------------------ state
VARIABLES
    AI_PRICING,       \* the static OnceCell<AiPricingJson>
    heap,             \* the documents leaked by Box::leak, by address 1, 2, ...
    remote,           \* the meteredPriceId of the document served at each URL
    pc,               \* per invocation: "new", "fetching", "done"
    env,              \* per invocation: the env argument
    bust_cache,       \* per invocation: the bust_cache argument
    fetched,          \* per invocation: what its fetch_pricing_json returned
    result,           \* per invocation: what get_ai_pricing returned
    nfetch,           \* per invocation: the fetches it has issued
    overlapped,       \* some invocation has started while another was in flight
    fetchCount,       \* the fetches issued by the whole process
    raced,            \* a non-bypass invocation has started while another
                      \* non-bypass invocation was in flight
    live,             \* the AiPricingJson values allocated and not dropped
    value,            \* codec: a Pricing value to be serialized
    json,             \* codec: the JSON of a model's pricing key
    decoded           \* codec: what deserializing json gave

vars == <<AI_PRICING, heap, remote, pc, env, bust_cache, fetched, result,
          nfetch, overlapped, fetchCount, raced, live, value, json, decoded>>

\* the variables of the serde codec, which get_ai_pricing never touches
codecVars == <<value, json, decoded>>

\* the variables of the cache, which the codec never touches
cacheVars == <<AI_PRICING, heap, remote, pc, env, bust_cache, fetched, result,
               nfetch, overlapped, fetchCount, raced, live>>

\* no Pricing value is at hand
NoValue == [variant |-> "none"]

\* no JSON text is at hand
NoJson == [t |-> "none"]

\* nothing is being serialized or deserialized
CodecIdle ==
    /\ value = NoValue
    /\ json = NoJson
    /\ decoded = NoResult

InFlight(c) == pc[c] = "fetching"

Init ==
    /\ AI_PRICING = CellNew
    /\ heap = <<>>
    /\ remote \in [Urls -> MeteredPriceIds]
    /\ pc = [c \in Calls |-> "new"]
    /\ env = [c \in Calls |-> "prod"]
    /\ bust_cache = [c \in Calls |-> FALSE]
    /\ fetched = [c \in Calls |-> NoResult]
    /\ result = [c \in Calls |-> NoResult]
    /\ nfetch = [c \in Calls |-> 0]
    /\ overlapped = FALSE
    /\ fetchCount = 0
    /\ raced = FALSE
    /\ live = 0
    /\ CodecIdle

\* ------------------------------------------------- get_ai_pricing, pieces
\* a mutant of CacheHit: the cell is never consulted
CacheHitNever(bust, cellv) == FALSE

\* a mutant of CacheHit: the bust_cache flag is not tested
CacheHitIgnoresBust(bust, cellv) == CellGet(cellv).filled

\* lines 211 and 219: the call is answered from the cell without a fetch
CacheHit(bust, cellv) == ~bust /\ CellGet(cellv).filled

\* a mutant of LeakBox: the fresh document is kept in one reused allocation
LeakBoxReuse(h, data) ==
    [heap |-> IF h = <<>> THEN <<data>> ELSE [h EXCEPT ![1] = data], ref |-> 1]

\* Box::leak(Box::new(data)): a fresh allocation that is never freed
LeakBox(h, data) == [heap |-> Append(h, data), ref |-> Len(h) + 1]

\* default AiPricingJson, as a fallback value would be
DefaultDocument == [metered_price_id |-> "", url |-> "", src |-> 0]

\* a mutant of ErrPath: a failed fetch stores a fallback document in the cell
ErrPathPoison(cellv, h, e) ==
    [cell |-> CellFilled(DefaultDocument), heap |-> h, res |-> Err(e)]

\* a mutant of ErrPath: a failed fetch falls back to the cached document
ErrPathFallback(cellv, h, e) ==
    IF cellv.filled
    THEN [cell |-> cellv, heap |-> h, res |-> Ok(CellAddr, cellv.doc)]
    ELSE [cell |-> cellv, heap |-> h, res |-> Err(e)]

\* the `?` after fetch_pricing_json(..).await at lines 212 and 224
ErrPath(cellv, h, e) == [cell |-> cellv, heap |-> h, res |-> Err(e)]

\* a mutant of BustPath: the fresh document is also stored in the cell
BustPathStores(cellv, h, data) ==
    LET b == LeakBox(h, data)
    IN  [cell |-> CellFilled(data), heap |-> b.heap,
         res |-> Ok(b.ref, b.heap[b.ref])]

\* lines 213-215: the bust_cache branch after a successful fetch
BustPath(cellv, h, data) ==
    LET b == LeakBox(h, data)
    IN  [cell |-> cellv, heap |-> b.heap, res |-> Ok(b.ref, b.heap[b.ref])]

\* a mutant of FillPath: a caller whose set fails keeps its own document
FillPathKeepsOwn(cellv, h, data) ==
    LET s == CellSet(cellv, data)
        b == LeakBox(h, data)
    IN  IF s.ok
        THEN [cell |-> s.cell, heap |-> h,
              res |-> Ok(CellAddr, CellGet(s.cell).doc)]
        ELSE [cell |-> s.cell, heap |-> b.heap, res |-> Ok(b.ref, data)]

\* lines 225-230: set the cell, map a failed set to an error, return get()
FillPath(cellv, h, data) ==
    LET s == CellSet(cellv, data)
    IN  IF s.ok
        THEN [cell |-> s.cell, heap |-> h,
              res |-> Ok(CellAddr, CellGet(s.cell).doc)]
        ELSE [cell |-> s.cell, heap |-> h, res |-> Err(CellAlreadyInitialized)]

\* a mutant of Attempt: a failed request is retried once
AttemptRetry(o, n) ==
    IF o # "ok" /\ n < 2
    THEN [again |-> TRUE, n |-> n + 1]
    ELSE [again |-> FALSE, n |-> n]

\* fetch_pricing_json makes one request: whatever the outcome o of the n-th
\* request, the function returns and no further request is issued
Attempt(o, n) == [again |-> FALSE, n |-> n]

\* what fetch_pricing_json returns to invocation c for outcome o
FetchResult(c, o, url, served) ==
    IF o = "ok"
    THEN [kind |-> "ok", doc |-> Document(c, url, served)]
    ELSE [kind |-> "err", err |-> FetchError(c, o)]

\* lines 212-215 and 224-230: the code that runs once the fetch has returned fr
AfterFetch(bust, cellv, h, fr) ==
    IF fr.kind = "err"
    THEN ErrPath(cellv, h, fr.err)
    ELSE IF bust
         THEN BustPath(cellv, h, fr.doc)
         ELSE FillPath(cellv, h, fr.doc)

\* a mutant of Resumable: a lock taken before the fetch and held across the
\* await lets the invocations finish only in the order in which they started
ResumableInTurn(c, p) ==
    p[c] = "fetching" /\ \A d \in Calls : d < c => p[d] # "fetching"

\* the await at lines 212 and 224: an invocation is resumed when its own
\* request has completed; it holds no lock and waits for nothing else
Resumable(c, p) == p[c] = "fetching"

\* ownership at the return: the value fr produced by a successful fetch stays
\* allocated when the code moved it into the cell (set, line 226) or into a
\* leaked box (line 214); otherwise it is dropped with the call's frame
Kept(cellv, h, r, fr) ==
    IF fr.kind = "ok" /\ (r.cell # cellv \/ r.heap # h) THEN 1 ELSE 0

\* ---------------------------------------------------------------- actions
\* get_ai_pricing(e, b) is called and runs to its first await or to a return
GetAiPricing(c, e, b) ==
    /\ pc[c] = "new"
    /\ \A d \in Calls : d < c => pc[d] # "new"
    /\ env' = [env EXCEPT ![c] = e]
    /\ bust_cache' = [bust_cache EXCEPT ![c] = b]
    /\ overlapped' = (overlapped \/ \E d \in Calls : InFlight(d))
    /\ raced' = (raced \/ (~b /\ \E d \in Calls : InFlight(d) /\ ~bust_cache[d]))
    /\ IF CacheHit(b, AI_PRICING)
       THEN /\ result' = [result EXCEPT
                            ![c] = Ok(CellAddr, CellGet(AI_PRICING).doc)]
            /\ pc' = [pc EXCEPT ![c] = "done"]
            /\ UNCHANGED <<nfetch, fetchCount>>
       ELSE /\ pc' = [pc EXCEPT ![c] = "fetching"]
            /\ nfetch' = [nfetch EXCEPT ![c] = 1]
            /\ fetchCount' = fetchCount + 1
            /\ UNCHANGED result
    /\ UNCHANGED <<AI_PRICING, heap, remote, fetched, live>>
    /\ UNCHANGED codecVars

\* the request of invocation c completes with outcome o; the invocation is
\* resumed and runs, without a further suspension point, to its return
FetchPricingJson(c, o) ==
    /\ Resumable(c, pc)
    /\ LET url == pricing_url(env[c])
           a == Attempt(o, nfetch[c])
           fr == FetchResult(c, o, url, remote[url])
           r == AfterFetch(bust_cache[c], AI_PRICING, heap, fr)
       IN  IF a.again
           THEN /\ nfetch' = [nfetch EXCEPT ![c] = a.n]
                /\ fetchCount' = fetchCount + 1
                /\ UNCHANGED <<AI_PRICING, heap, fetched, result, pc, live>>
           ELSE /\ fetched' = [fetched EXCEPT ![c] = fr]
                /\ AI_PRICING' = r.cell
                /\ heap' = r.heap
                /\ result' = [result EXCEPT ![c] = r.res]
                /\ pc' = [pc EXCEPT ![c] = "done"]
                /\ live' = live + Kept(AI_PRICING, heap, r, fr)
                /\ UNCHANGED <<nfetch, fetchCount>>
    /\ UNCHANGED <<remote, env, bust_cache, overlapped, raced>>
    /\ UNCHANGED codecVars

\* the publisher replaces the document served at URL u
Publish(u, m) ==
    /\ remote[u] # m
    /\ remote' = [remote EXCEPT ![u] = m]
    /\ UNCHANGED <<AI_PRICING, heap, pc, env, bust_cache, fetched, result,
                   nfetch, overlapped, fetchCount, raced, live>>
    /\ UNCHANGED codecVars

Next ==
    \/ \E c \in Calls, e \in Envs, b \in BOOLEAN : GetAiPricing(c, e, b)
    \/ \E c \in Calls, o \in FetchOutcomes : FetchPricingJson(c, o)
    \/ \E u \in Urls, m \in MeteredPriceIds : Publish(u, m)

Spec == Init /\ [][Next]_vars

\* the runtime resumes an invocation whose request has completed, and every
\* request completes, with a response or with an error
SpecFair ==
    Spec /\ \A c \in Calls : WF_vars(\E o \in FetchOutcomes : FetchPricingJson(c, o))

\* the process while the publisher leaves every document as it is
NextStill ==
    \/ \E c \in Calls, e \in Envs, b \in BOOLEAN : GetAiPricing(c, e, b)
    \/ \E c \in Calls, o \in FetchOutcomes : FetchPricingJson(c, o)

SpecStill == Init /\ [][NextStill]_vars

\* ----------------------------------------- the URL mapping on more inputs
\* env strings around the designated one: case variants and the empty string
EnvStrings == {"prod", "dev", "Prod", "PROD", ""}

UrlStrings == {pricing_url(e) : e \in EnvStrings}

InitUrl ==
    /\ AI_PRICING = CellNew
    /\ heap = <<>>
    /\ remote = [u \in UrlStrings |-> "price_A"]
    /\ pc = [c \in Calls |-> "new"]
    /\ env = [c \in Calls |-> "prod"]
    /\ bust_cache = [c \in Calls |-> FALSE]
    /\ fetched = [c \in Calls |-> NoResult]
    /\ result = [c \in Calls |-> NoResult]
    /\ nfetch = [c \in Calls |-> 0]
    /\ overlapped = FALSE
    /\ fetchCount = 0
    /\ raced = FALSE
    /\ live = 0
    /\ CodecIdle

\* calls made one after the other, with any of the env strings
NextUrl ==
    \/ \E c \in Calls, e \in EnvStrings, b \in BOOLEAN :
          /\ \A d \in Calls : ~InFlight(d)
          /\ GetAiPricing(c, e, b)
    \/ \E c \in Calls, o \in {"ok", "status"} : FetchPricingJson(c, o)

SpecUrl == InitUrl /\ [][NextUrl]_vars

\* ---------------------------------------------------- the pricing codec
\* the longest JSON array of scalars that is given to the decoder
MaxArrayLen == 6

\* the longest image-pricing list, as a value and as JSON
MaxImages == 2

\* JSON values
JNull == [t |-> "null"]

JNum(n) == [t |-> "num", v |-> n]

JStr(x) == [t |-> "str", v |-> x]

JArr(elems) == [t |-> "arr", v |-> elems]

JObj(members) == [t |-> "obj", v |-> members]

\* a key that the object does not have, an element past the array's end,
\* a pricing key that the model does not have
Absent == [t |-> "absent"]

\* the object with the keys of ks whose member is present under pick
MkObj(ks, pick) ==
    JObj([k \in {x \in ks : pick[x].t # "absent"} |-> pick[k]])

\* f64 values: the finite ones (here integers) and an infinity
Finite(n) == [fin |-> TRUE, n |-> n]

Infinity == [fin |-> FALSE, n |-> 0]

\* Option values
None == [some |-> FALSE]

Some(x) == [some |-> TRUE, v |-> x]

\* what a Deserialize implementation returns
Decoded(x) == [kind |-> "ok", v |-> x]

DecodeError == [kind |-> "err"]

\* the JSON keys of TextPricing, in the order of declaration
TextPricingKeys ==
    <<"cachedInputPer1K", "cachedInputPer1M",
      "inputPer1K", "inputPer1M", "outputPer1K", "outputPer1M">>

\* the JSON keys of ImagePricing, in the order of declaration
ImagePricingKeys == <<"costPerImage", "description", "size">>

\* the fields of TextPricing that carry serde(default)
TextPricingDefaulted == {1, 2}

TextPricing(g) ==
    [cached_input_per1_k |-> g[1], cached_input_per1_m |-> g[2],
     input_per1_k |-> g[3], input_per1_m |-> g[4],
     output_per1_k |-> g[5], output_per1_m |-> g[6]]

ImagePricing(g) == [cost_per_image |-> g[1], description |-> g[2], size |-> g[3]]

PricingText(tp) == [variant |-> "TextPricing", v |-> tp]

PricingImages(list) == [variant |-> "ImagePricingVec", v |-> list]

\* f64 from JSON: any number
DecodeF64(j) == IF j.t = "num" THEN Decoded(Finite(j.v)) ELSE DecodeError

\* a mutant of DecodeOptF64: null is not accepted for an Option
DecodeOptF64NoNull(j) ==
    IF j.t = "num" THEN Decoded(Some(Finite(j.v))) ELSE DecodeError

\* Option<f64> from JSON: null is None, a number is Some
DecodeOptF64(j) ==
    IF j.t = "null" THEN Decoded(None)
    ELSE IF j.t = "num" THEN Decoded(Some(Finite(j.v)))
    ELSE DecodeError

\* String from JSON
DecodeString(j) == IF j.t = "str" THEN Decoded(j.v) ELSE DecodeError

\* the member of a JSON object under a key
Member(members, k) == IF k \in DOMAIN members THEN members[k] ELSE Absent

\* the element of a JSON array at a position
Element(elems, i) == IF i <= Len(elems) THEN elems[i] ELSE Absent

\* the parts of a struct as the derived visitor meets them: by key in an
\* object, by position in an array of at most as many elements as fields
Parts(j, keys) ==
    IF j.t = "obj"
    THEN Decoded([i \in DOMAIN keys |-> Member(j.v, keys[i])])
    ELSE IF j.t = "arr" /\ Len(j.v) <= Len(keys)
    THEN Decoded([i \in DOMAIN keys |-> Element(j.v, i)])
    ELSE DecodeError

\* one field of TextPricing
DecodeTextField(i, part) ==
    IF i \in TextPricingDefaulted
    THEN IF part.t = "absent" THEN Decoded(None) ELSE DecodeOptF64(part)
    ELSE IF part.t = "absent" THEN DecodeError ELSE DecodeF64(part)

\* the derived Deserialize of TextPricing
DecodeTextPricing(j) ==
    LET parts == Parts(j, TextPricingKeys)
        f(i) == DecodeTextField(i, parts.v[i])
    IN  IF parts.kind = "ok" /\ \A i \in DOMAIN TextPricingKeys : f(i).kind = "ok"
        THEN Decoded(TextPricing([i \in DOMAIN TextPricingKeys |-> f(i).v]))
        ELSE DecodeError

\* one field of ImagePricing
DecodeImageField(i, part) ==
    IF part.t = "absent" THEN DecodeError
    ELSE IF i = 1 THEN DecodeF64(part) ELSE DecodeString(part)

\* the derived Deserialize of ImagePricing
DecodeImagePricing(j) ==
    LET parts == Parts(j, ImagePricingKeys)
        f(i) == DecodeImageField(i, parts.v[i])
    IN  IF parts.kind = "ok" /\ \A i \in DOMAIN ImagePricingKeys : f(i).kind = "ok"
        THEN Decoded(ImagePricing([i \in DOMAIN ImagePricingKeys |-> f(i).v]))
        ELSE DecodeError

\* Deserialize of Vec<ImagePricing>: an array, entry by entry, in order
DecodeImagePricingVec(j) ==
    IF j.t = "arr" /\ \A i \in DOMAIN j.v : DecodeImagePricing(j.v[i]).kind = "ok"
    THEN Decoded([i \in DOMAIN j.v |-> DecodeImagePricing(j.v[i]).v])
    ELSE DecodeError

\* the untagged Deserialize of Pricing: the variants in order of declaration
DecodePricing(j) ==
    LET text == DecodeTextPricing(j)
        images == DecodeImagePricingVec(j)
    IN  IF text.kind = "ok" THEN Decoded(PricingText(text.v))
        ELSE IF images.kind = "ok" THEN Decoded(PricingImages(images.v))
        ELSE DecodeError

\* Model::pricing, an Option<Pricing> with serde(default)
DecodeModelPricing(j) ==
    LET p == DecodePricing(j)
    IN  IF j.t \in {"absent", "null"} THEN Decoded(None)
        ELSE IF p.kind = "ok" THEN Decoded(Some(p.v))
        ELSE DecodeError

\* what fetch_pricing_json returns for a document whose model decoded so
JsonOutcome(d) == IF d.kind = "ok" THEN "ok" ELSE "decode"

\* f64 to JSON: serde_json writes null for a value that is not finite
EncodeF64(x) == IF x.fin THEN JNum(x.n) ELSE JNull

\* Option<f64> to JSON
EncodeOptF64(o) == IF o.some THEN EncodeF64(o.v) ELSE JNull

\* the derived Serialize of TextPricing: every field, None included
EncodeTextPricing(tp) ==
    LET member(k) ==
            CASE k = "cachedInputPer1K" -> EncodeOptF64(tp.cached_input_per1_k)
              [] k = "cachedInputPer1M" -> EncodeOptF64(tp.cached_input_per1_m)
              [] k = "inputPer1K" -> EncodeF64(tp.input_per1_k)
              [] k = "inputPer1M" -> EncodeF64(tp.input_per1_m)
              [] k = "outputPer1K" -> EncodeF64(tp.output_per1_k)
              [] k = "outputPer1M" -> EncodeF64(tp.output_per1_m)
        keys == {TextPricingKeys[i] : i \in DOMAIN TextPricingKeys}
    IN  MkObj(keys, [k \in keys |-> member(k)])

\* the derived Serialize of ImagePricing
EncodeImagePricing(ip) ==
    LET member(k) ==
            CASE k = "costPerImage" -> EncodeF64(ip.cost_per_image)
              [] k = "description" -> JStr(ip.description)
              [] k = "size" -> JStr(ip.size)
        keys == {ImagePricingKeys[i] : i \in DOMAIN ImagePricingKeys}
    IN  MkObj(keys, [k \in keys |-> member(k)])

\* the untagged Serialize of Pricing
EncodePricing(p) ==
    IF p.variant = "TextPricing" THEN EncodeTextPricing(p.v)
    ELSE JArr([i \in DOMAIN p.v |-> EncodeImagePricing(p.v[i])])

\* ------------------------------------------- the codec's inputs and steps
JBool(b) == [t |-> "bool", v |-> b]

\* the shapes a member or an element is given
ShapeTags == {"absent", "null", "num", "str"}

\* the JSON of a shape; a number is the position it stands at
Shaped(tag, n) ==
    CASE tag = "absent" -> Absent
      [] tag = "null" -> JNull
      [] tag = "num" -> JNum(n)
      [] tag = "str" -> JStr("x")

\* the position of a key of TextPricing, one more for any other key
KeyIndex(k) ==
    IF \E i \in DOMAIN TextPricingKeys : TextPricingKeys[i] = k
    THEN CHOOSE i \in DOMAIN TextPricingKeys : TextPricingKeys[i] = k
    ELSE Len(TextPricingKeys) + 1

\* the keys of the objects given for a text model: TextPricing's and one more
TextObjectKeys == {TextPricingKeys[i] : i \in DOMAIN TextPricingKeys} \cup {"currency"}

\* objects: every key absent, null, a number or a string
TextObjectInputs ==
    {MkObj(TextObjectKeys, [k \in TextObjectKeys |-> Shaped(f[k], KeyIndex(k))]) :
        f \in [TextObjectKeys -> ShapeTags]}

\* arrays of scalars: every element null, a number or a string
ScalarArrayInputs ==
    UNION {{JArr([i \in 1..n |-> Shaped(f[i], i)]) :
               f \in [1..n -> ShapeTags \ {"absent"}]} : n \in 0..MaxArrayLen}

\* the entries of the arrays given for an image model: objects with the keys
\* of ImagePricing present or not and of the right type or not, the same in
\* positional form, and a scalar
ImageEntryInputs ==
    {MkObj({"costPerImage", "description", "size"},
           [costPerImage |-> c, description |-> d, size |-> s]) :
        c \in {Absent, JNum(1), JNum(2), JStr("x")},
        d \in {JStr("d"), JNum(1)},
        s \in {Absent, JStr("s")}}
    \cup {JArr(<<JNum(1), JStr("d"), JStr("s")>>), JNum(1)}

ImageArrayInputs ==
    UNION {{JArr(es) : es \in [1..n -> ImageEntryInputs]} : n \in 0..MaxImages}

ScalarInputs == {Absent, JNull, JNum(1), JStr("x"), JBool(TRUE)}

\* what a document can carry under a model's pricing key
JsonInputs ==
    ScalarInputs \cup TextObjectInputs \cup ScalarArrayInputs \cup ImageArrayInputs

\* the rates of the Pricing values that are serialized
RateValues == {Finite(1), Finite(2), Infinity}

OptRateValues == {None} \cup {Some(r) : r \in RateValues}

TextPricingValues ==
    {TextPricing(<<a, b, c, d, e, f>>) :
        a \in OptRateValues, b \in OptRateValues,
        c \in RateValues, d \in RateValues, e \in RateValues, f \in RateValues}

ImagePricingValues ==
    {ImagePricing(<<c, d, s>>) : c \in RateValues, d \in {"d"}, s \in {"s", "l"}}

PricingValues ==
    {PricingText(tp) : tp \in TextPricingValues}
    \cup UNION {{PricingImages(l) : l \in [1..n -> ImagePricingValues]} :
                   n \in 0..MaxImages}

\* a document's pricing value arrives as JSON, or a Pricing value is at hand
InitCodec ==
    /\ AI_PRICING = CellNew
    /\ heap = <<>>
    /\ remote = [u \in Urls |-> "price_A"]
    /\ pc = [c \in Calls |-> "new"]
    /\ env = [c \in Calls |-> "prod"]
    /\ bust_cache = [c \in Calls |-> FALSE]
    /\ fetched = [c \in Calls |-> NoResult]
    /\ result = [c \in Calls |-> NoResult]
    /\ nfetch = [c \in Calls |-> 0]
    /\ overlapped = FALSE
    /\ fetchCount = 0
    /\ raced = FALSE
    /\ live = 0
    /\ decoded = NoResult
    /\ \/ value = NoValue /\ json \in JsonInputs
       \/ value \in PricingValues /\ json = NoJson

\* serde_json writes the Pricing value
Serialize ==
    /\ value.variant # "none"
    /\ json.t = "none"
    /\ json' = EncodePricing(value)
    /\ UNCHANGED <<value, decoded>>
    /\ UNCHANGED cacheVars

\* serde_json reads a model's pricing key
Deserialize ==
    /\ json.t # "none"
    /\ decoded.kind = "none"
    /\ decoded' = DecodeModelPricing(json)
    /\ UNCHANGED <<value, json>>
    /\ UNCHANGED cacheVars

NextCodec ==
    \/ Serialize
    \/ Deserialize

SpecCodec == InitCodec /\ [][NextCodec]_vars

\* ------------------------------------------------- vocabulary of the claims
Started(c) == pc[c] # "new"

Done(c) == pc[c] = "done"

NonBypass(c) == Started(c) /\ ~bust_cache[c]

Bypass(c) == Started(c) /\ bust_cache[c]

FetchOk(c) == fetched[c].kind = "ok"

FetchFailed(c) == fetched[c].kind = "err"

ReturnedOk(c) == Done(c) /\ result[c].kind = "ok"

ReturnedErr(c) == Done(c) /\ result[c].kind = "err"

\* the step in which get_ai_pricing of invocation c is called
Starts(c) == pc[c] = "new" /\ pc'[c] # "new"

\* the step in which the fetch of invocation c returns and c runs to its return
Completes(c) == pc[c] = "fetching" /\ pc'[c] = "done"

\* the document a returned reference points at
Deref(ref) == IF ref = CellAddr THEN AI_PRICING.doc ELSE heap[ref]

\* ------------------------------------------------------------------- C1
\* C1: every non-bypass call whose own fetch succeeded returns Ok with the
\* document committed to the cell, winner and losers alike, and every error a
\* call returns is the error of its own fetch (the failed set of a race loser
\* is never returned to a caller).
C1_RaceLoserGetsWinnersValue ==
    \A c \in Calls :
        /\ (Done(c) /\ ~bust_cache[c] /\ FetchOk(c)) =>
              (AI_PRICING.filled /\ result[c] = Ok(CellAddr, AI_PRICING.doc))
        /\ ReturnedErr(c) =>
              (FetchFailed(c) /\ result[c].err = fetched[c].err)

\* ------------------------------------------------------------------- C2
\* C2: the cell is write-once: a step changes the cell only from empty to
\* filled, so a filled cell is never emptied and never holds another document
\* than the first one committed, whatever mix of bypass and non-bypass calls,
\* successes and failures runs.
C2_SlotWriteOnce ==
    [][/\ AI_PRICING.filled => AI_PRICING' = AI_PRICING
       /\ AI_PRICING' # AI_PRICING =>
             \E c \in Calls :
                 /\ Completes(c) /\ ~bust_cache[c] /\ fetched'[c].kind = "ok"
                 /\ AI_PRICING' = CellFilled(fetched'[c].doc)]_vars

\* two non-bypass fetches succeeded and both reached set(); one committed
C2_Witness ==
    \E c, d \in Calls :
        /\ c # d /\ Done(c) /\ Done(d)
        /\ ~bust_cache[c] /\ ~bust_cache[d] /\ FetchOk(c) /\ FetchOk(d)
        /\ fetched[c].doc # fetched[d].doc
        /\ AI_PRICING = CellFilled(fetched[c].doc)

\* ------------------------------------------------------------------- C3
\* C3: a non-bypass call that starts once some non-bypass call has returned
\* Ok returns at once, Ok, the very reference and document that call got, and
\* issues no fetch; and N >= 2 sequential non-bypass calls whose first fetch
\* succeeded have issued exactly one fetch in total.
C3_HitStep(c) ==
    (/\ Starts(c) /\ ~bust_cache'[c]
     /\ \E d \in Calls : ReturnedOk(d) /\ ~bust_cache[d])
    => /\ pc'[c] = "done"
       /\ fetchCount' = fetchCount /\ nfetch'[c] = 0
       /\ result'[c].kind = "ok" /\ result'[c].ref = CellAddr
       /\ \A d \in Calls :
             (ReturnedOk(d) /\ ~bust_cache[d]) => result'[c] = result[d]

C3_Sequential ==
    (/\ ~overlapped
     /\ \A c \in Calls : Started(c) => ~bust_cache[c]
     /\ Done(1) /\ FetchOk(1)
     /\ \E c \in Calls : c >= 2 /\ Done(c))
    => fetchCount = 1

C3_IdempotentCacheHit ==
    /\ [][\A c \in Calls : C3_HitStep(c)]_vars
    /\ []C3_Sequential

\* every call of the model made in sequence, non-bypass, the first one
\* fetching and the later ones answered from the cell
C3_Witness ==
    /\ ~overlapped
    /\ \A c \in Calls : Done(c) /\ ~bust_cache[c] /\ ReturnedOk(c)
    /\ nfetch[1] = 1
    /\ \A c \in Calls : c >= 2 => nfetch[c] = 0 /\ result[c] = result[1]
    /\ fetchCount = 1

\* ------------------------------------------------------------------- C4
\* C4: a non-bypass call whose fetch fails returns an error and its steps
\* leave the cell as it was; a non-bypass call that finds the cell empty
\* issues a fetch, and when that fetch succeeds with the cell still empty
\* the call fills the cell with its document and returns Ok.
C4_Step(c) ==
    /\ (Completes(c) /\ ~bust_cache[c] /\ fetched'[c].kind = "err") =>
          /\ result'[c].kind = "err"
          /\ AI_PRICING' = AI_PRICING
    /\ (Starts(c) /\ ~bust_cache'[c] /\ ~AI_PRICING.filled) =>
          /\ pc'[c] = "fetching"
          /\ nfetch'[c] = 1 /\ fetchCount' = fetchCount + 1
    /\ (/\ Completes(c) /\ ~bust_cache[c] /\ fetched'[c].kind = "ok"
        /\ ~AI_PRICING.filled) =>
          /\ AI_PRICING' = CellFilled(fetched'[c].doc)
          /\ result'[c] = Ok(CellAddr, fetched'[c].doc)

C4_FailureDoesNotPoison == [][\A c \in Calls : C4_Step(c)]_vars

\* a non-bypass call failed with the cell empty; a call made after it had
\* returned fetched again, filled the cell and returned Ok
C4_Witness ==
    \E d, c \in Calls :
        /\ d < c /\ ~overlapped
        /\ \A b \in Calls : b < c => (~bust_cache[b] /\ ReturnedErr(b))
        /\ ~bust_cache[c] /\ ReturnedOk(c) /\ nfetch[c] = 1
        /\ AI_PRICING = CellFilled(fetched[c].doc)

\* ------------------------------------------------------------------- C5
\* C5: no step of a bypass call changes the cell; a bypass call issues its
\* own fetch whether the cell is empty or filled, and it returns the result
\* of that fetch: the fetched document, or the fetch's error.
C5_Step(c) ==
    /\ ((Starts(c) /\ bust_cache'[c]) \/ (Completes(c) /\ bust_cache[c])) =>
          AI_PRICING' = AI_PRICING
    /\ (Starts(c) /\ bust_cache'[c]) =>
          /\ pc'[c] = "fetching"
          /\ nfetch'[c] = 1 /\ fetchCount' = fetchCount + 1
    /\ (Completes(c) /\ bust_cache[c]) =>
          /\ nfetch'[c] = 1
          /\ fetched'[c].kind = "ok" =>
                (result'[c].kind = "ok" /\ result'[c].doc = fetched'[c].doc)
          /\ fetched'[c].kind = "err" => result'[c] = Err(fetched'[c].err)

C5_BypassLeavesSlotAlone == [][\A c \in Calls : C5_Step(c)]_vars

\* with the cell filled, one bypass call has fetched and returned its own
\* document and another has returned its fetch's error
C5_Witness ==
    \E f, c, d \in Calls :
        /\ f < c /\ c < d /\ ~overlapped
        /\ ~bust_cache[f] /\ ReturnedOk(f) /\ AI_PRICING = CellFilled(fetched[f].doc)
        /\ Bypass(c) /\ ReturnedOk(c) /\ nfetch[c] = 1
        /\ result[c].doc = fetched[c].doc /\ result[c].doc # AI_PRICING.doc
        /\ Bypass(d) /\ ReturnedErr(d) /\ nfetch[d] = 1

\* ------------------------------------------------------------------- C6
\* C6: whenever a non-bypass call has returned Ok, the cell is filled, the
\* returned reference is the cell's document, and that document is one a
\* successful fetch-and-decode of a non-bypass call produced; so any two Ok
\* results of non-bypass calls are the same reference to the same document.
C6_OkResultsAreTheCommittedDocument ==
    \A c \in Calls :
        (ReturnedOk(c) /\ ~bust_cache[c]) =>
            /\ AI_PRICING.filled
            /\ result[c].ref = CellAddr
            /\ result[c].doc = Deref(result[c].ref)
            /\ \E d \in Calls :
                  ~bust_cache[d] /\ FetchOk(d) /\ fetched[d].doc = AI_PRICING.doc
            /\ \A d \in Calls :
                  (ReturnedOk(d) /\ ~bust_cache[d]) => result[d] = result[c]

\* a race of two non-bypass fetches that both succeeded, and a later
\* non-bypass call answered from the cell
C6_Witness ==
    \E a, b, c \in Calls :
        /\ a # b /\ a < c /\ b < c
        /\ ~bust_cache[a] /\ ~bust_cache[b] /\ ~bust_cache[c]
        /\ FetchOk(a) /\ FetchOk(b) /\ Done(a) /\ Done(b)
        /\ ReturnedOk(a) /\ ReturnedOk(c) /\ nfetch[c] = 0
        /\ result[c].doc = fetched[a].doc

\* ------------------------------------------------------------------- C7
\* C7: on the bypass path and on the empty-cell non-bypass path, a call whose
\* fetch failed returns an error, and the error is the one its fetch produced
\* (transport, HTTP status or decode), also when the cell has been filled
\* meanwhile.
C7_FetcherErrorsPropagate ==
    \A c \in Calls :
        (Done(c) /\ FetchFailed(c)) =>
            /\ result[c] = Err(fetched[c].err)
            /\ result[c].err.msg \in FetchErrors
            /\ result[c].err.src = c

\* a bypass call and a non-bypass call failed with different kinds of error,
\* the non-bypass one in a race with the caller that filled the cell
C7_Witness ==
    \E a, b, c \in Calls :
        /\ a < b
        /\ ~bust_cache[a] /\ ReturnedOk(a) /\ AI_PRICING.filled
        /\ ~bust_cache[b] /\ ReturnedErr(b) /\ FetchFailed(b)
        /\ Bypass(c) /\ ReturnedErr(c) /\ FetchFailed(c)
        /\ result[b].err.msg # result[c].err.msg

\* ------------------------------------------------------------------- C8
\* C8: whatever bypass calls, successful or failing, were made before the
\* first non-bypass call, that call finds the cell empty and issues a fetch;
\* when its fetch succeeds and no other non-bypass call has been made, it
\* fills the cell with its own document and returns it.
C8_Step(c) ==
    /\ (Starts(c) /\ ~bust_cache'[c] /\ \A d \in Calls : d < c => bust_cache[d]) =>
          /\ ~AI_PRICING.filled
          /\ pc'[c] = "fetching" /\ nfetch'[c] = 1
    /\ (/\ Completes(c) /\ ~bust_cache[c] /\ fetched'[c].kind = "ok"
        /\ \A d \in Calls : (d # c /\ Started(d)) => bust_cache[d]) =>
          /\ AI_PRICING' = CellFilled(fetched'[c].doc)
          /\ result'[c] = Ok(CellAddr, fetched'[c].doc)

C8_BypassIndependence == [][\A c \in Calls : C8_Step(c)]_vars

\* a successful and a failing bypass call returned, then the first
\* non-bypass call fetched, filled the cell and returned its document
C8_Witness ==
    \E a, b, c \in Calls :
        /\ a < c /\ b < c /\ ~overlapped
        /\ Bypass(a) /\ ReturnedOk(a)
        /\ Bypass(b) /\ ReturnedErr(b)
        /\ ~bust_cache[c] /\ ReturnedOk(c) /\ nfetch[c] = 1
        /\ AI_PRICING = CellFilled(fetched[c].doc)

\* ------------------------------------------------------------------- C9
\* C9: the reference a successful bypass call returns is a fresh allocation:
\* it is not the cell's address, it points at the call's own fetched document
\* for good, and no other bypass call has returned the same reference.
C9_BypassNeverAliases ==
    \A c \in Calls :
        (ReturnedOk(c) /\ bust_cache[c]) =>
            /\ result[c].ref # CellAddr
            /\ result[c].ref \in 1..Len(heap)
            /\ Deref(result[c].ref) = fetched[c].doc
            /\ result[c].doc = fetched[c].doc
            /\ \A d \in Calls :
                  (d # c /\ ReturnedOk(d)) => result[d].ref # result[c].ref

\* two bypass calls and a cell-filling call have all returned Ok
C9_Witness ==
    \E a, b, c \in Calls :
        /\ a # b
        /\ Bypass(a) /\ ReturnedOk(a)
        /\ Bypass(b) /\ ReturnedOk(b)
        /\ ~bust_cache[c] /\ ReturnedOk(c) /\ AI_PRICING.filled

\* ------------------------------------------------------------------ C10
\* C10: an invocation issues at most one fetch: exactly one on the bypass
\* path and on the empty-cell path, none when it is answered from the cell;
\* so the process has issued at most as many fetches as calls were made.
RECURSIVE SumFetches(_)
SumFetches(n) == IF n = 0 THEN 0 ELSE nfetch[n] + SumFetches(n - 1)

C10_NoInternalRetries ==
    /\ \A c \in Calls :
          /\ nfetch[c] <= 1
          /\ Bypass(c) => nfetch[c] = 1
          /\ (NonBypass(c) /\ (pc[c] = "fetching" \/ fetched[c].kind # "none")) =>
                nfetch[c] = 1
          /\ (NonBypass(c) /\ Done(c) /\ fetched[c].kind = "none") =>
                (nfetch[c] = 0 /\ ReturnedOk(c))
    /\ fetchCount = SumFetches(MaxCalls)
    /\ fetchCount <= Cardinality({c \in Calls : Started(c)})

\* every call of the model raced on the empty cell, non-bypass: each issued
\* one fetch, some failed, one filled the cell
C10_Witness ==
    /\ \A c \in Calls : ~bust_cache[c] /\ Done(c) /\ nfetch[c] = 1
    /\ \E c \in Calls : FetchFailed(c)
    /\ \E c \in Calls : ReturnedOk(c)
    /\ fetchCount = MaxCalls

\* ------------------------------------------------------------------ C11
\* C11, as stated: while the remote documents do not change, a successful
\* get_ai_pricing(env, false) followed by a successful get_ai_pricing(env,
\* true) for the same env returns two documents with equal meteredPriceId,
\* in two different instances.
C11_CachedAndBypassAgree ==
    \A c, d \in Calls :
        (/\ c < d /\ ~overlapped /\ env[c] = env[d]
         /\ ~bust_cache[c] /\ ReturnedOk(c)
         /\ bust_cache[d] /\ ReturnedOk(d)) =>
            /\ result[c].doc.metered_price_id = result[d].doc.metered_price_id
            /\ result[c].ref # result[d].ref

\* C11, amended: while the remote documents do not change, the non-bypass
\* call that itself fetched and filled the cell and a successful bypass call
\* for the same env return two documents with equal meteredPriceId, in two
\* different instances.
C11_FillerAndBypassAgree ==
    \A c, d \in Calls :
        (/\ env[c] = env[d]
         /\ ~bust_cache[c] /\ ReturnedOk(c) /\ FetchOk(c)
         /\ bust_cache[d] /\ ReturnedOk(d)) =>
            /\ AI_PRICING = CellFilled(fetched[c].doc)
            /\ result[c].doc.metered_price_id = result[d].doc.metered_price_id
            /\ result[c].ref # result[d].ref
            /\ Deref(result[d].ref) # Deref(result[c].ref)

\* the test of lines 238-259: get("dev", false) fills the cell, then
\* get("dev", true) returns; the other URL serves another meteredPriceId
C11_Witness ==
    /\ ~overlapped
    /\ env[1] = "dev" /\ ~bust_cache[1] /\ ReturnedOk(1) /\ FetchOk(1)
    /\ env[2] = "dev" /\ bust_cache[2] /\ ReturnedOk(2)
    /\ remote[pricing_url("prod")] # remote[pricing_url("dev")]

\* ------------------------------------------------------------------ C12
\* what the mapping is to yield on each of the env strings
ExpectedUrl(e) ==
    CASE e = "prod" -> "https://images.bookcicle.com/ai/ai-pricing.json"
      [] e = "dev"  -> "https://images.bookcicle.com/ai/ai-pricing-dev.json"
      [] e = "Prod" -> "https://images.bookcicle.com/ai/ai-pricing-Prod.json"
      [] e = "PROD" -> "https://images.bookcicle.com/ai/ai-pricing-PROD.json"
      [] e = ""     -> "https://images.bookcicle.com/ai/ai-pricing-.json"

\* C12: the URL a call fetches is the production URL exactly when env is
\* "prod", case-sensitively, and the URL with the "-<env>" suffix for every
\* other env, the empty string and case variants of "prod" included; it
\* depends on env only and is the same on the bypass and non-bypass paths.
C12_EnvToUrl ==
    \A c \in Calls :
        FetchOk(c) =>
            /\ fetched[c].doc.url = ExpectedUrl(env[c])
            /\ (fetched[c].doc.url = ExpectedUrl("prod")) <=> (env[c] = "prod")
            /\ \A d \in Calls :
                  FetchOk(d) =>
                      ((env[d] = env[c]) <=> (fetched[d].doc.url = fetched[c].doc.url))

\* a case variant of "prod" fetched on both paths, and the empty env
C12_Witness ==
    \E a, b, c \in Calls :
        /\ env[a] = "Prod" /\ ~bust_cache[a] /\ FetchOk(a)
        /\ env[b] = "Prod" /\ bust_cache[b] /\ FetchOk(b)
        /\ env[c] = "" /\ FetchOk(c)

\* ------------------------------------------------------------------ C16
\* C16: the cell is not keyed by env: a non-bypass call made once the cell
\* is filled returns the cell's document, the one fetched from the URL of
\* the env of the call that filled it, whatever its own env, and fetches
\* nothing; a document of another URL is fetched, from then on, by bypass
\* calls only.
C16_Step(c) ==
    (Starts(c) /\ ~bust_cache'[c] /\ AI_PRICING.filled) =>
        /\ pc'[c] = "done" /\ nfetch'[c] = 0 /\ fetchCount' = fetchCount
        /\ result'[c] = Ok(CellAddr, AI_PRICING.doc)
        /\ result'[c].doc.url = pricing_url(env[AI_PRICING.doc.src])
        /\ fetched'[c] = NoResult

C16_State ==
    \A c \in Calls :
        (NonBypass(c) /\ Done(c) /\ nfetch[c] = 0) =>
            /\ ~FetchOk(c)
            /\ result[c].doc = AI_PRICING.doc
            /\ (env[c] # env[AI_PRICING.doc.src]) =>
                  result[c].doc.url # pricing_url(env[c])

C16_CacheNotKeyedByEnv ==
    /\ [][\A c \in Calls : C16_Step(c)]_vars
    /\ []C16_State

\* the cell was filled for one env; a non-bypass call for the other env got
\* that document without a fetch, and a bypass call fetched the other env's
C16_Witness ==
    \E a, b, c \in Calls :
        /\ a < b /\ a < c
        /\ ~bust_cache[a] /\ ReturnedOk(a) /\ FetchOk(a)
        /\ AI_PRICING = CellFilled(fetched[a].doc)
        /\ env[b] # env[a] /\ ~bust_cache[b] /\ ReturnedOk(b) /\ nfetch[b] = 0
        /\ result[b].doc.url = pricing_url(env[a])
        /\ env[c] = env[b] /\ bust_cache[c] /\ ReturnedOk(c)
        /\ result[c].doc.url = pricing_url(env[b])

\* ------------------------------------------------------------------ C17
\* C17: as long as no two non-bypass calls have been in flight at the same
\* time, however bypass calls overlap, a non-bypass call returns an error
\* only if its own fetch failed, and then that error, and the set after a
\* successful fetch succeeds: the call's document is the cell's and it
\* returns Ok.
C17_NoContentionWithoutOverlap ==
    ~raced =>
        \A c \in Calls :
            (NonBypass(c) /\ Done(c)) =>
                /\ ReturnedErr(c) =>
                      (FetchFailed(c) /\ result[c] = Err(fetched[c].err))
                /\ FetchOk(c) =>
                      /\ AI_PRICING = CellFilled(fetched[c].doc)
                      /\ result[c] = Ok(CellAddr, fetched[c].doc)

\* a non-bypass call failed and a later one filled the cell while bypass
\* calls overlapped them, and no two non-bypass calls overlapped
C17_Witness ==
    \E a, b, c \in Calls :
        /\ ~raced /\ overlapped
        /\ ~bust_cache[a] /\ ReturnedErr(a)
        /\ ~bust_cache[b] /\ ReturnedOk(b) /\ FetchOk(b)
        /\ bust_cache[c] /\ ReturnedOk(c)

\* ------------------------------------------------------------------ C18
\* C18: the documents that stay allocated are the cell's, if it is filled,
\* and one per successful bypass call, each at the address that call
\* returned and never freed or replaced; the document of a non-bypass call
\* that failed to commit is dropped and not counted.
C18_State ==
    /\ live = (IF AI_PRICING.filled THEN 1 ELSE 0)
              + Cardinality({c \in Calls : bust_cache[c] /\ ReturnedOk(c)})
    /\ Len(heap) = Cardinality({c \in Calls : bust_cache[c] /\ ReturnedOk(c)})
    /\ \A c \in Calls :
          (bust_cache[c] /\ ReturnedOk(c)) => heap[result[c].ref] = fetched[c].doc

C18_BypassDocumentsNeverReclaimed ==
    /\ []C18_State
    /\ [][/\ Len(heap') >= Len(heap)
          /\ \A i \in 1..Len(heap) : heap'[i] = heap[i]
          /\ live' >= live]_vars

\* a bypass call succeeded, a non-bypass call filled the cell and another
\* one fetched but lost the race: two documents stay, one was dropped
C18_Witness ==
    /\ live = Len(heap) + 1
    /\ Len(heap) >= 1
    /\ \E a, b \in Calls :
          /\ a # b /\ ~bust_cache[a] /\ ~bust_cache[b]
          /\ FetchOk(a) /\ FetchOk(b) /\ ReturnedOk(a) /\ ReturnedErr(b)

\* ------------------------------------------------------------------ C15
\* C15: a call in flight can always be resumed by the completion of its own
\* fetch, with success as with failure, whatever the other calls are doing;
\* the step in which its fetch completes is the step in which it returns,
\* Ok or Err, and it moves no other call; under fairness every call in
\* flight returns; and whatever errors have been returned, the next call can
\* be made with any arguments.
C15_NeverWaits ==
    \A c \in Calls :
        /\ pc[c] = "fetching" =>
              \A o \in FetchOutcomes : ENABLED FetchPricingJson(c, o)
        /\ (pc[c] = "new" /\ \A d \in Calls : d < c => Started(d)) =>
              \A e \in Envs, b \in BOOLEAN : ENABLED GetAiPricing(c, e, b)

C15_ReturnsAtCompletion(c) ==
    (pc[c] = "fetching" /\ <<fetched[c], nfetch[c], pc[c]>>' # <<fetched[c], nfetch[c], pc[c]>>)
    => /\ pc'[c] = "done"
       /\ result'[c].kind \in {"ok", "err"}
       /\ (fetched'[c].kind = "err") => result'[c].kind = "err"
       /\ \A d \in Calls : d # c => (pc'[d] = pc[d] /\ result'[d] = result[d])

C15_ProgressWithoutSerialization ==
    /\ []C15_NeverWaits
    /\ [][\A c \in Calls : C15_ReturnsAtCompletion(c)]_vars
    /\ \A c \in Calls : (pc[c] = "fetching") ~> Done(c)

\* calls were in flight together, one of them returned an error, a call
\* started after it returned Ok, and every call has returned
C15_Witness ==
    \E a, b \in Calls :
        /\ a < b /\ overlapped
        /\ ReturnedErr(a) /\ ReturnedOk(b)
        /\ \A c \in Calls : Done(c)

\* ---- C13, C14: the codec of a model's pricing value
\* a JSON value read from a document (not written from a value) was decoded
DecodedFromDocument ==
    /\ value.variant = "none"
    /\ decoded.kind # "none"

\* an object with the four required rates, the cached rates absent, null
\* or numbers
TextShaped(j) ==
    /\ j.t = "obj"
    /\ \A k \in {"inputPer1K", "inputPer1M", "outputPer1K", "outputPer1M"} :
           Member(j.v, k).t = "num"
    /\ \A k \in {"cachedInputPer1K", "cachedInputPer1M"} :
           Member(j.v, k).t \in {"absent", "null", "num"}

\* an array of {costPerImage, description, size} entries
ImageShaped(j) ==
    /\ j.t = "arr"
    /\ \A i \in DOMAIN j.v :
           /\ j.v[i].t = "obj"
           /\ Member(j.v[i].v, "costPerImage").t = "num"
           /\ Member(j.v[i].v, "description").t = "str"
           /\ Member(j.v[i].v, "size").t = "str"

\* the optional rate a member of a text object stands for
RateOf(m) == IF m.t = "num" THEN Some(Finite(m.v)) ELSE None

\* the text pricing a text-shaped object stands for
TextOf(j) ==
    [cached_input_per1_k |-> RateOf(Member(j.v, "cachedInputPer1K")),
     cached_input_per1_m |-> RateOf(Member(j.v, "cachedInputPer1M")),
     input_per1_k |-> Finite(j.v["inputPer1K"].v),
     input_per1_m |-> Finite(j.v["inputPer1M"].v),
     output_per1_k |-> Finite(j.v["outputPer1K"].v),
     output_per1_m |-> Finite(j.v["outputPer1M"].v)]

\* the image pricing list an image-shaped array stands for, in its order
ImagesOf(j) ==
    [i \in DOMAIN j.v |->
        [cost_per_image |-> Finite(j.v[i].v["costPerImage"].v),
         description |-> j.v[i].v["description"].v,
         size |-> j.v[i].v["size"].v]]

\* C13: a text-shaped object decodes to the text variant with its rates, an
\* array of image entries decodes to the image variant in the same order,
\* and every other shape that is not null or absent is a decode failure
\* of the document, which the fetch reports as an error
C13_StructuralDisambiguation ==
    (DecodedFromDocument /\ json.t \notin {"absent", "null"}) =>
        IF TextShaped(json)
        THEN decoded = Decoded(Some(PricingText(TextOf(json))))
        ELSE IF ImageShaped(json)
        THEN decoded = Decoded(Some(PricingImages(ImagesOf(json))))
        ELSE decoded.kind = "err" /\ JsonOutcome(decoded) \in FetchErrors

\* a Pricing value was written to JSON and the JSON was read back
RoundTripped ==
    /\ value.variant # "none"
    /\ decoded.kind # "none"

\* every rate of the value is a finite number
AllFinite(p) ==
    IF p.variant = "TextPricing"
    THEN /\ \A r \in {p.v.input_per1_k, p.v.input_per1_m,
                      p.v.output_per1_k, p.v.output_per1_m} : r.fin
         /\ \A o \in {p.v.cached_input_per1_k, p.v.cached_input_per1_m} :
                o.some => o.v.fin
    ELSE \A i \in DOMAIN p.v : p.v[i].cost_per_image.fin

====
